---- MODULE Spec2Model ----
(***************************************************************************)
(* Generador de JSON Schema desde texto (src/app.py).                      *)
(*                                                                         *)
(* A text is modelled as the sequence of its lexical units: every maximal  *)
(* run of \w characters is one token (a "word"), every other character is  *)
(* a token of its own.  Python's \b falls exactly on the edges of the word *)
(* tokens, \s matches the tokens of Espacios, and "." matches every token  *)
(* but "\n".  A JSON text is modelled as the sequence of its JSON tokens   *)
(* (insignificant whitespace left out).                                    *)
(***************************************************************************)
EXTENDS Integers, Sequences, FiniteSets, TLC

VARIABLES
    texto,          \* the text handed to analizar_texto_y_generar_schema
    resultado,      \* what analizar_texto_y_generar_schema returned, or None
    schema_actual,  \* st.session_state.schema_actual
    json_editado,   \* st.session_state.json_editado
    historial,      \* st.session_state.historial
    json_editor,    \* the text_area widget keyed "json_editor", or None
    unidades        \* how many pieces of text have been entered into texto

vars == <<texto, resultado, schema_actual, json_editado, historial, json_editor,
          unidades>>

\* Python's None, and a value that is present
None == <<>>

Some(x) == <<x>>

(***************************************************************************)
(* Bounds of the model.                                                    *)
(***************************************************************************)
MaxUnidades == 3
MaxHistorial == 3

(***************************************************************************)
(* Lexical classes.                                                        *)
(***************************************************************************)
Espacios == {" ", "\n"}

Puntuacion == {":", "(", ")", "-", ".", ","}

EsPalabra(t) == t \notin (Espacios \cup Puntuacion)

\* str.lower() on one token
Lower(t) ==
    CASE t = "A" -> "a"
      [] t = "EDAD" -> "edad"
      [] t = "User" -> "user"
      [] t = "Usuario" -> "usuario"
      [] OTHER -> t

LowerTexto(txt) == [i \in 1..Len(txt) |-> Lower(txt[i])]

(***************************************************************************)
(* The four pattern families, as sequences of regex elements:              *)
(*   "w"   a capturing group (\w+)        "s+"  \s+        "s*"  \s*       *)
(*   "lit" one token out of the set s                                      *)
(* The literal "campo" of the first family is not anchored by \b, so it    *)
(* matches the tail of any word that ends in "campo".                      *)
(***************************************************************************)
TerminaEnCampo == {"campo", "subcampo"}

El(k, s) == [k |-> k, s |-> s]

patrones == <<
    \* campo\s+(\w+)\s+\((\w+)\)
    << El("lit", TerminaEnCampo), El("s+", {}), El("w", {}), El("s+", {}),
       El("lit", {"("}), El("w", {}), El("lit", {")"}) >>,
    \* (\w+)\s*:\s*(\w+)
    << El("w", {}), El("s*", {}), El("lit", {":"}), El("s*", {}), El("w", {}) >>,
    \* -\s*(\w+)\s+\((\w+)\)
    << El("lit", {"-"}), El("s*", {}), El("w", {}), El("s+", {}),
       El("lit", {"("}), El("w", {}), El("lit", {")"}) >>,
    \* (\w+)\s+es\s+un[ao]?\s+(\w+)
    << El("w", {}), El("s+", {}), El("lit", {"es"}), El("s+", {}),
       El("lit", {"un", "una", "uno"}), El("s+", {}), El("w", {}) >>
>>

RECURSIVE SaltarEspacios(_, _)
SaltarEspacios(txt, pos) ==
    IF pos <= Len(txt) /\ txt[pos] \in Espacios
    THEN SaltarEspacios(txt, pos + 1)
    ELSE pos

Fallo == [ok |-> FALSE, fin |-> 0, g |-> <<>>]

\* the regex engine's attempt to match pat[k..] at position pos
RECURSIVE Casar(_, _, _, _, _)
Casar(pat, k, txt, pos, g) ==
    IF k > Len(pat) THEN [ok |-> TRUE, fin |-> pos, g |-> g]
    ELSE LET e == pat[k] IN
         CASE e.k = "s*" -> Casar(pat, k + 1, txt, SaltarEspacios(txt, pos), g)
           [] e.k = "s+" ->
                IF pos <= Len(txt) /\ txt[pos] \in Espacios
                THEN Casar(pat, k + 1, txt, SaltarEspacios(txt, pos), g)
                ELSE Fallo
           [] e.k = "lit" ->
                IF pos <= Len(txt) /\ txt[pos] \in e.s
                THEN Casar(pat, k + 1, txt, pos + 1, g)
                ELSE Fallo
           [] e.k = "w" ->
                IF pos <= Len(txt) /\ EsPalabra(txt[pos])
                THEN Casar(pat, k + 1, txt, pos + 1, Append(g, txt[pos]))
                ELSE Fallo

\* re.finditer: the non-overlapping matches, left to right
RECURSIVE finditer(_, _, _)
finditer(pat, txt, pos) ==
    IF pos > Len(txt) THEN <<>>
    ELSE LET m == Casar(pat, 1, txt, pos, <<>>) IN
         IF m.ok
         THEN << [nombre |-> m.g[1], tipo |-> m.g[2], ini |-> pos] >>
              \o finditer(pat, txt, m.fin)
         ELSE finditer(pat, txt, pos + 1)

\* the loop over patrones: campos_detectados after the first n families
RECURSIVE DetectarPatrones(_, _)
DetectarPatrones(txt, n) ==
    IF n = 0 THEN <<>>
    ELSE DetectarPatrones(txt, n - 1) \o finditer(patrones[n], txt, 1)

(***************************************************************************)
(* detectar_campos_por_palabras_clave                                      *)
(***************************************************************************)
\* str.split(): the maximal runs of non-whitespace, each a sequence of tokens
RECURSIVE Split(_, _, _)
Split(txt, pos, run) ==
    IF pos > Len(txt)
    THEN IF run = <<>> THEN <<>> ELSE <<run>>
    ELSE IF txt[pos] \in Espacios
         THEN (IF run = <<>> THEN <<>> ELSE <<run>>) \o Split(txt, pos + 1, <<>>)
         ELSE Split(txt, pos + 1, Append(run, txt[pos]))

palabras_clave == <<
    <<"nombre", "string">>, <<"apellido", "string">>, <<"direccion", "string">>,
    <<"ciudad", "string">>, <<"pais", "string">>, <<"email", "email">>,
    <<"correo", "email">>, <<"telefono", "string">>, <<"edad", "integer">>,
    <<"precio", "number">>, <<"cantidad", "integer">>, <<"fecha", "date">>,
    <<"descripcion", "string">>, <<"titulo", "string">>, <<"url", "url">>,
    <<"activo", "boolean">>, <<"habilitado", "boolean">> >>

RECURSIVE RecorrerClaves(_, _)
RecorrerClaves(palabras, n) ==
    IF n = 0 THEN <<>>
    ELSE LET presente == \E i \in 1..Len(palabras) : palabras[i] = <<palabras_clave[n][1]>>
         IN  RecorrerClaves(palabras, n - 1)
             \o (IF presente
                 THEN << [nombre |-> palabras_clave[n][1],
                          tipo |-> palabras_clave[n][2], ini |-> 0] >>
                 ELSE <<>>)

detectar_campos_por_palabras_clave(txt) ==
    RecorrerClaves(Split(LowerTexto(txt), 1, <<>>), Len(palabras_clave))

(***************************************************************************)
(* analizar_texto_y_generar_schema                                         *)
(***************************************************************************)
tipo_mapping == [t \in {"texto", "cadena", "string", "str", "numero", "entero",
                        "int", "integer", "float", "decimal", "booleano", "bool",
                        "boolean", "fecha", "date", "email", "correo", "url",
                        "array", "lista", "arreglo", "objeto", "object"} |->
    CASE t \in {"texto", "cadena", "string", "str", "fecha", "date", "email",
                "correo", "url"} -> "string"
      [] t \in {"numero", "float", "decimal"} -> "number"
      [] t \in {"entero", "int", "integer"} -> "integer"
      [] t \in {"booleano", "bool", "boolean"} -> "boolean"
      [] t \in {"array", "lista", "arreglo"} -> "array"
      [] t \in {"objeto", "object"} -> "object"]

\* tipo_mapping[tipo] with no default: an unknown type passes through
TipoJSONSinDefecto(tipo) == IF tipo \in DOMAIN tipo_mapping THEN tipo_mapping[tipo] ELSE tipo

\* tipo_mapping.get(tipo, "string")
TipoJSON(tipo) == IF tipo \in DOMAIN tipo_mapping THEN tipo_mapping[tipo] ELSE "string"

\* the optional "format" key ("" when the key is absent)
Formato(tipo) ==
    CASE tipo \in {"email", "correo"} -> "email"
      [] tipo \in {"fecha", "date"} -> "date"
      [] tipo = "url" -> "uri"
      [] OTHER -> ""

\* whether the "items" key is added
TieneItems(tipo) == Formato(tipo) = "" /\ TipoJSON(tipo) = "array"

PalabrasRequerido == {"obligatorio", "requerido", "required"}

\* the same search compiled with re.DOTALL: "." also matches "\n"
RECURSIVE ClaveEnRestoDotAll(_, _)
ClaveEnRestoDotAll(txt, pos) ==
    IF pos > Len(txt) THEN FALSE
    ELSE IF txt[pos] \in PalabrasRequerido THEN TRUE
    ELSE ClaveEnRestoDotAll(txt, pos + 1)

\* .*\b(obligatorio|requerido|required)\b from position pos: "." stops at "\n"
RECURSIVE ClaveEnResto(_, _)
ClaveEnResto(txt, pos) ==
    IF pos > Len(txt) THEN FALSE
    ELSE IF txt[pos] = "\n" THEN FALSE
    ELSE IF txt[pos] \in PalabrasRequerido THEN TRUE
    ELSE ClaveEnResto(txt, pos + 1)

\* re.search(rf'\b{nombre}\b.*\b(obligatorio|requerido|required)\b', texto_lower)
RECURSIVE BuscarRequerido(_, _, _)
BuscarRequerido(nombre, txt, pos) ==
    IF pos > Len(txt) THEN FALSE
    ELSE IF txt[pos] = nombre /\ ClaveEnResto(txt, pos + 1) THEN TRUE
    ELSE BuscarRequerido(nombre, txt, pos + 1)

Propiedad(nombre, tipo, requerido) ==
    [nombre |-> nombre,
     type |-> TipoJSON(tipo),
     format |-> Formato(tipo),
     items |-> TieneItems(tipo),
     description |-> IF requerido THEN <<"Campo", nombre, "(obligatorio)">>
                                  ELSE <<"Campo", nombre>>]

\* schema["properties"].setdefault(nombre, propiedad): the first detection wins
AsignarSiNuevo(props, p) ==
    IF \E i \in 1..Len(props) : props[i].nombre = p.nombre
    THEN props
    ELSE Append(props, p)

\* schema["properties"][nombre] = propiedad: a dict keeps the position of a
\* key's first insertion and overwrites its value
Asignar(props, p) ==
    IF \E i \in 1..Len(props) : props[i].nombre = p.nombre
    THEN [i \in 1..Len(props) |-> IF props[i].nombre = p.nombre THEN p ELSE props[i]]
    ELSE Append(props, p)

\* schema["required"].append(nombre)
AgregarRequerido(req, nombre) == Append(req, nombre)

\* the loop over campos_detectados, after its first n iterations
RECURSIVE Construir(_, _, _)
Construir(campos, txt, n) ==
    IF n = 0 THEN [properties |-> <<>>, required |-> <<>>]
    ELSE LET s == Construir(campos, txt, n - 1)
             c == campos[n]
             r == BuscarRequerido(c.nombre, txt, 1)
         IN  [properties |-> Asignar(s.properties, Propiedad(c.nombre, c.tipo, r)),
              required |-> IF r THEN AgregarRequerido(s.required, c.nombre)
                                ELSE s.required]

EjemploGenerico ==
    [properties |-> << [nombre |-> "ejemplo", type |-> "string", format |-> "",
                        items |-> FALSE, description |-> <<"generico">>] >>,
     required |-> <<"ejemplo">>]

\* no generic example
RespaldoAusente(s) == s

\* if not schema["properties"]: ...
Respaldo(s) == IF s.properties = <<>> THEN EjemploGenerico ELSE s

\* the keyword scan run unconditionally
CamposDetectadosSiempre(txt) ==
    DetectarPatrones(LowerTexto(txt), Len(patrones))
    \o detectar_campos_por_palabras_clave(txt)

\* campos_detectados, after the keyword fallback
CamposDetectados(txt) ==
    LET porPatron == DetectarPatrones(LowerTexto(txt), Len(patrones))
    IN  IF porPatron = <<>> THEN detectar_campos_por_palabras_clave(txt)
                            ELSE porPatron

analizar_texto_y_generar_schema(txt) ==
    LET campos == CamposDetectados(txt)
    IN  Respaldo(Construir(campos, LowerTexto(txt), Len(campos)))

(***************************************************************************)
(* The texts the analysis is applied to: built from single tokens and from *)
(* ready phrases, or pasted whole.                                         *)
(***************************************************************************)
Unidades ==
    { <<t>> : t \in {" ", "\n", ":", "a", "A", "EDAD", "email", "foo", "required"} }
    \cup
    { <<"campo", " ", "a", " ", "(", "entero", ")">>,
      <<"subcampo", "\n", "b", " ", "(", "foo", ")">>,
      <<"a", ":", "foo">>,
      <<"b", " ", ":", "\n", "email">>,
      <<"-", "a", " ", "(", "lista", ")">>,
      <<"-", " ", "b", " ", "(", "fecha", ")", " ", "-", " ", "obligatorio">>,
      <<"a", " ", "es", " ", "una", " ", "url">> }

\* the scenario of the specification's testable properties
EscenarioUser ==
    <<"User", " ", "with", " ", "fields", ":", " ",
      "name", " ", "(", "string", ")", ",", " ",
      "age", " ", "(", "integer", ")", ",", " ",
      "email", " ", "(", "email", ")", ".", " ",
      "name", " ", "and", " ", "email", " ", "are", " ", "required", ".">>

\* the first example of the page's description
EjemploPagina ==
    <<"Usuario", " ", "con", " ", "campos", ":", " ",
      "nombre", " ", "(", "string", ")", ",", " ",
      "edad", " ", "(", "integer", ")", ",", " ",
      "email", " ", "(", "email", ")", ",", " ",
      "activo", " ", "(", "boolean", ")">>

Ejemplos == {EscenarioUser, EjemploPagina}

\* a sequence of tokens is the tokenisation of a text only if no two words
\* are adjacent (adjacent \w characters belong to one word)
SePuedeUnir(t, u) ==
    IF Len(t) = 0 \/ Len(u) = 0 THEN TRUE
    ELSE ~(EsPalabra(t[Len(t)]) /\ EsPalabra(u[1]))

SesionInicial ==
    /\ schema_actual = None
    /\ json_editado = <<>>
    /\ historial = <<>>
    /\ json_editor = None

InitInfer ==
    /\ texto = <<>>
    /\ unidades = 0
    /\ resultado = None
    /\ SesionInicial

Escribir(u) ==
    /\ resultado = None
    /\ unidades < MaxUnidades
    /\ SePuedeUnir(texto, u)
    /\ texto' = texto \o u
    /\ unidades' = unidades + 1
    /\ UNCHANGED <<resultado, schema_actual, json_editado, historial, json_editor>>

Pegar(e) ==
    /\ resultado = None
    /\ unidades = 0
    /\ texto' = e
    /\ unidades' = MaxUnidades
    /\ UNCHANGED <<resultado, schema_actual, json_editado, historial, json_editor>>

Analizar ==
    /\ resultado = None
    /\ resultado' = Some(analizar_texto_y_generar_schema(texto))
    /\ UNCHANGED <<texto, unidades, schema_actual, json_editado, historial, json_editor>>

NextInfer ==
    \/ \E u \in Unidades : Escribir(u)
    \/ \E e \in Ejemplos : Pegar(e)
    \/ Analizar

SpecInfer == InitInfer /\ [][NextInfer]_vars

(***************************************************************************)
(* JSON texts: sequences of JSON tokens.  P is a structural character,     *)
(* S a string literal, L another scalar literal (a number, true, null),    *)
(* X anything that is no JSON token (a bare word, a stray quote).          *)
(***************************************************************************)
P(x) == <<"p", <<x>>>>

S(x) == <<"s", x>>

L(x) == <<"l", <<x>>>>

X(x) == <<"x", <<x>>>>

\* "k": followed by the tokens of a value
Miembro(k, valor) == <<S(<<k>>), P(":")>> \o valor

\* the blocks of a dict or a list, separated by commas
RECURSIVE Unir(_, _)
Unir(bloques, n) ==
    IF n = 0 THEN <<>>
    ELSE IF n = 1 THEN bloques[1]
    ELSE Unir(bloques, n - 1) \o <<P(",")>> \o bloques[n]

Objeto(miembros) == <<P("{")>> \o Unir(miembros, Len(miembros)) \o <<P("}")>>

Lista(elementos) == <<P("[")>> \o Unir(elementos, Len(elementos)) \o <<P("]")>>

\* one property dict, in the order its keys were set
PropiedadJSON(p) ==
    Objeto(<< Miembro("type", <<S(<<p.type>>)>>) >>
           \o (IF p.format # "" THEN << Miembro("format", <<S(<<p.format>>)>>) >>
               ELSE IF p.items
               THEN << Miembro("items", Objeto(<< Miembro("type", <<S(<<"string">>)>>) >>)) >>
               ELSE <<>>)
           \o << Miembro("description", <<S(p.description)>>) >>)

\* json.dumps(data, indent=2, ensure_ascii=False)
formatear_json(data) ==
    Objeto(<<
        Miembro("$schema", <<S(<<"http://json-schema.org/draft-07/schema#">>)>>),
        Miembro("title", <<S(<<"Schema Generado">>)>>),
        Miembro("description", <<S(<<"Schema generado automaticamente desde texto">>)>>),
        Miembro("type", <<S(<<"object">>)>>),
        Miembro("properties",
                Objeto([i \in 1..Len(data.properties) |->
                            Miembro(data.properties[i].nombre,
                                    PropiedadJSON(data.properties[i]))])),
        Miembro("required",
                Lista([i \in 1..Len(data.required) |-> <<S(<<data.required[i]>>)>>]))
    >>)

\* json.loads as a recursive-descent parser: the position after the value
\* that starts at p, or 0 when there is none (JSONDecodeError)
RECURSIVE ParseValue(_, _), ParseMembers(_, _), ParseElements(_, _)
ParseValue(t, p) ==
    IF p > Len(t) THEN 0
    ELSE IF t[p][1] \in {"s", "l"} THEN p + 1
    ELSE IF t[p] = P("{")
         THEN IF p + 1 <= Len(t) /\ t[p + 1] = P("}") THEN p + 2
              ELSE ParseMembers(t, p + 1)
    ELSE IF t[p] = P("[")
         THEN IF p + 1 <= Len(t) /\ t[p + 1] = P("]") THEN p + 2
              ELSE ParseElements(t, p + 1)
    ELSE 0

ParseMembers(t, p) ==
    IF p + 1 <= Len(t) /\ t[p][1] = "s" /\ t[p + 1] = P(":")
    THEN LET q == ParseValue(t, p + 2) IN
         IF q = 0 \/ q > Len(t) THEN 0
         ELSE IF t[q] = P(",") THEN ParseMembers(t, q + 1)
         ELSE IF t[q] = P("}") THEN q + 1
         ELSE 0
    ELSE 0

ParseElements(t, p) ==
    LET q == ParseValue(t, p) IN
    IF q = 0 \/ q > Len(t) THEN 0
    ELSE IF t[q] = P(",") THEN ParseElements(t, q + 1)
    ELSE IF t[q] = P("]") THEN q + 1
    ELSE 0

\* a decoder that stops after the first value and ignores what follows it
validar_jsonPrefijo(json_str) == ParseValue(json_str, 1) # 0

\* validar_json(json_str)[0]
validar_json(json_str) == ParseValue(json_str, 1) = Len(json_str) + 1

(***************************************************************************)
(* The page: one action per user event, each the whole script run (and the *)
(* run that st.rerun() starts) that the event triggers.                    *)
(***************************************************************************)
LargoTextoHistorial == 100

VentanaHistorial == 5

\* the test without strip(): only the empty text counts as blank
EnBlancoSinStrip(t) == t = <<>>

\* texto_entrada.strip() is empty
EnBlanco(t) == \A i \in 1..Len(t) : t[i] \in Espacios

\* the entry appended to historial (its timestamp, the wall clock, left out);
\* lengths are counted in tokens
EntradaHistorial(t, schema) ==
    [texto |-> IF Len(t) > LargoTextoHistorial
               THEN SubSeq(t, 1, LargoTextoHistorial) \o <<"...">>
               ELSE t,
     schema |-> schema]

\* reversed(st.session_state.historial[-5:])
UltimosAlReves(h) ==
    LET n == IF Len(h) < VentanaHistorial THEN Len(h) ELSE VentanaHistorial
    IN  [i \in 1..n |-> h[Len(h) + 1 - i]]

\* What st.text_area(value=..., key="json_editor") returns.  A widget that was
\* not on the previous run's page starts from value; one that was, with the
\* same value, keeps its text; when value has changed the widget is either
\* rebuilt from value or keeps its text, depending on how the Streamlit in use
\* identifies a keyed widget.
TextosDelEditor(valor, w) ==
    IF w = None THEN {valor}
    ELSE IF w[1].valor = valor THEN {w[1].texto}
    ELSE {valor, w[1].texto}

\* the edit tab storing the text without looking at the validation's result
ValidarEdicionSiempre(je, devuelto) == devuelto

\* the edit tab, given what the text_area returned
ValidarEdicion(je, devuelto) == IF validar_json(devuelto) THEN devuelto ELSE je

\* "with resultado_container": the outcomes of rendering the result column
Render(sa, je, w) ==
    IF sa = None THEN { [je |-> je, w |-> None] }
    ELSE { [je |-> ValidarEdicion(je, v), w |-> Some([valor |-> je, texto |-> v])] :
           v \in TextosDelEditor(je, w) }

\* the texts entered in the page's text area
TextosEntrada ==
    { <<>>, <<" ", "\n">>, <<"a", ":", "foo">>, <<"EDAD", " ", "required">> }

\* the texts the user leaves in the JSON editor
Ediciones(actual) ==
    { <<>>,
      <<P("{"), P("}")>>,
      <<L("1")>>,
      <<P("{"), S(<<"type">>), P(":"), S(<<"object">>)>>,
      <<P("{"), S(<<"a">>), P(":"), P("["), L("1"), P(","), P("]"), P("}")>>,
      <<P("{"), P("}"), P("}")>>,
      <<X("hola")>> }
    \cup (IF actual = <<>> THEN {} ELSE {SubSeq(actual, 1, Len(actual) - 1)})

InitUI ==
    /\ texto = <<>>
    /\ unidades = 0
    /\ resultado = None
    /\ SesionInicial

\* "Generar Schema" pressed with t in the text area
Generar(t) ==
    /\ EnBlanco(t) \/ Len(historial) < MaxHistorial
    /\ texto' = t
    /\ LET schema == analizar_texto_y_generar_schema(t)
           sa == IF EnBlanco(t) THEN schema_actual ELSE Some(schema)
           je == IF EnBlanco(t) THEN json_editado ELSE formatear_json(schema)
       IN  /\ schema_actual' = sa
           /\ historial' = IF EnBlanco(t) THEN historial
                           ELSE Append(historial, EntradaHistorial(t, schema))
           /\ \E r \in Render(sa, je, json_editor) :
                 /\ json_editado' = r.je
                 /\ json_editor' = r.w
    /\ UNCHANGED <<resultado, unidades>>

\* "Limpiar" pressed
Limpiar ==
    /\ schema_actual' = None
    /\ \E r \in Render(None, <<>>, json_editor) :
          /\ json_editado' = r.je
          /\ json_editor' = r.w
    /\ UNCHANGED <<texto, resultado, unidades, historial>>

\* the user leaves the text j in the JSON editor
Editar(j) ==
    /\ schema_actual # None
    /\ json_editor # None
    /\ j # json_editor[1].texto
    /\ json_editado' = ValidarEdicion(json_editado, j)
    /\ json_editor' = Some([valor |-> json_editado, texto |-> j])
    /\ UNCHANGED <<texto, resultado, unidades, schema_actual, historial>>

\* "Cargar" pressed on the i-th entry shown in the sidebar
Cargar(i) ==
    /\ i \in 1..Len(UltimosAlReves(historial))
    /\ LET item == UltimosAlReves(historial)[i] IN
       /\ schema_actual' = Some(item.schema)
       /\ \E r1 \in Render(schema_actual, json_editado, json_editor) :
          \E r2 \in Render(Some(item.schema), formatear_json(item.schema), r1.w) :
             /\ json_editado' = r2.je
             /\ json_editor' = r2.w
    /\ UNCHANGED <<texto, resultado, unidades, historial>>

\* "Limpiar Historial" pressed
LimpiarHistorial ==
    /\ historial # <<>>
    /\ historial' = <<>>
    /\ \E r1 \in Render(schema_actual, json_editado, json_editor) :
       \E r2 \in Render(schema_actual, r1.je, r1.w) :
          /\ json_editado' = r2.je
          /\ json_editor' = r2.w
    /\ UNCHANGED <<texto, resultado, unidades, schema_actual>>

\* "Cargar Ejemplo" only assigns the script's local texto_entrada and reruns:
\* it changes nothing of the session state and is no step of this model.
NextUI ==
    \/ \E t \in TextosEntrada : Generar(t)
    \/ Limpiar
    \/ \E j \in Ediciones(json_editado) : Editar(j)
    \/ \E i \in 1..VentanaHistorial : Cargar(i)
    \/ LimpiarHistorial

SpecUI == InitUI /\ [][NextUI]_vars

(***************************************************************************)
(* Properties of analizar_texto_y_generar_schema, stated for SpecInfer     *)
(***************************************************************************)
Rango(seq) == {seq[i] : i \in 1..Len(seq)}

Nombres(props) == [i \in 1..Len(props) |-> props[i].nombre]

\* the matches of each family on the lower-cased text
Familias == [k \in 1..Len(patrones) |-> finditer(patrones[k], LowerTexto(texto), 1)]

HayPatronEn(F) == \E k \in 1..Len(F) : F[k] # <<>>

Claves == {palabras_clave[i][1] : i \in 1..Len(palabras_clave)}

\* token i of txt stands alone between whitespace (or the ends of the text)
DelimitadaPorEspacios(txt, i) ==
    /\ i = 1 \/ txt[i - 1] \in Espacios
    /\ i = Len(txt) \/ txt[i + 1] \in Espacios

ClavePresente(k, txt) ==
    \E i \in 1..Len(txt) : txt[i] = k /\ DelimitadaPorEspacios(txt, i)

\* the returned schema holds detected fields, not the generic example
HayCampos ==
    /\ resultado # None
    /\ resultado[1].properties[1].description # <<"generico">>

\* C1: the analysis always returns at least one property; a text with no
\* pattern match and no dictionary keyword as a token (the empty text
\* included) yields exactly the property "ejemplo" of type string with
\* required = ["ejemplo"].
C1_NuncaVacio ==
    resultado # None =>
        /\ Len(resultado[1].properties) >= 1
        /\ (/\ ~HayPatronEn(Familias)
            /\ ~(\E k \in Claves : ClavePresente(k, LowerTexto(texto)))) =>
              /\ Nombres(resultado[1].properties) = <<"ejemplo">>
              /\ resultado[1].properties[1].type = "string"
              /\ resultado[1].required = <<"ejemplo">>

C1_Testigo ==
    /\ resultado # None
    /\ \E i \in 1..Len(texto) : EsPalabra(texto[i])
    /\ ~HayPatronEn(Familias)
    /\ ~(\E k \in Claves : ClavePresente(k, LowerTexto(texto)))
    /\ resultado[1] = EjemploGenerico

\* C2: for the text "User with fields: name (string), age (integer), email
\* (email). name and email are required." the analysis returns name: string,
\* age: integer, email: string with format email, and required [name, email].
C2_EscenarioUser ==
    (resultado # None /\ texto = EscenarioUser) =>
        /\ Nombres(resultado[1].properties) = <<"name", "age", "email">>
        /\ resultado[1].properties[1].type = "string"
        /\ resultado[1].properties[2].type = "integer"
        /\ resultado[1].properties[3].type = "string"
        /\ resultado[1].properties[3].format = "email"
        /\ resultado[1].required = <<"name", "email">>

\* name occurs as a whole word and a required-word occurs later in the text
SeguidaDeClave(nombre, txt) ==
    \E a \in 1..Len(txt) : \E b \in (a + 1)..Len(txt) :
        txt[a] = nombre /\ txt[b] \in PalabrasRequerido

\* ... with no line break between the two
SeguidaDeClaveEnLinea(nombre, txt) ==
    \E a \in 1..Len(txt) : \E b \in (a + 1)..Len(txt) :
        /\ txt[a] = nombre
        /\ txt[b] \in PalabrasRequerido
        /\ \A c \in (a + 1)..(b - 1) : txt[c] # "\n"

\* C3 (as claimed): a detected field is required exactly when its name occurs
\* in the lower-cased text as a whole word and one of "obligatorio",
\* "requerido", "required" occurs as a whole word anywhere later in the text.
C3_RequeridoEnTodoElTexto ==
    HayCampos =>
        \A n \in Rango(Nombres(resultado[1].properties)) :
            (n \in Rango(resultado[1].required))
                <=> SeguidaDeClave(n, LowerTexto(texto))

\* C3 (amended): a detected field is required exactly when its name occurs in
\* the lower-cased text as a whole word and one of the three words occurs as
\* a whole word later on the same line (no "\n" in between).
C3_RequeridoEnLaMismaLinea ==
    HayCampos =>
        \A n \in Rango(Nombres(resultado[1].properties)) :
            (n \in Rango(resultado[1].required))
                <=> SeguidaDeClaveEnLinea(n, LowerTexto(texto))

\* one field followed by a required-word only on a later line, and so not
\* required, beside one that is required
C3_Testigo ==
    /\ HayCampos
    /\ \E n \in Rango(Nombres(resultado[1].properties)) :
          /\ SeguidaDeClave(n, LowerTexto(texto))
          /\ ~SeguidaDeClaveEnLinea(n, LowerTexto(texto))
          /\ n \notin Rango(resultado[1].required)
    /\ \E n \in Rango(Nombres(resultado[1].properties)) :
          n \in Rango(resultado[1].required)

TiposCanonicos == {"string", "integer", "number", "boolean", "array", "object"}

\* the candidates in the order the code collects them
CandidatosDe(F) ==
    IF HayPatronEn(F) THEN F[1] \o F[2] \o F[3] \o F[4]
    ELSE detectar_campos_por_palabras_clave(texto)

\* the last element of c named n
UltimoDe(c, n) ==
    c[CHOOSE i \in 1..Len(c) :
          c[i].nombre = n /\ \A j \in (i + 1)..Len(c) : c[j].nombre # n]

\* C4: every property of a returned schema has one of the six canonical
\* types, and a property whose raw type is absent from the synonym table has
\* type string.
C4_TiposCanonicos ==
    resultado # None =>
        LET c == CandidatosDe(Familias) IN
        \A i \in 1..Len(resultado[1].properties) :
            LET p == resultado[1].properties[i] IN
            /\ p.type \in TiposCanonicos
            /\ (HayCampos /\ UltimoDe(c, p.nombre).tipo \notin DOMAIN tipo_mapping)
                  => p.type = "string"

C4_Testigo ==
    /\ HayCampos
    /\ LET c == CandidatosDe(Familias) IN
       \E i \in 1..Len(resultado[1].properties) :
          /\ UltimoDe(c, resultado[1].properties[i].nombre).tipo \notin DOMAIN tipo_mapping
          /\ resultado[1].properties[i].type = "string"
    /\ \E i \in 1..Len(resultado[1].properties) :
          resultado[1].properties[i].type = "integer"

\* C5: required is a set in insertion order: each of its names is a property,
\* none occurs twice, and the names follow the order of properties.
C5_RequiredSinRepetidos ==
    resultado # None =>
        LET req == resultado[1].required
            nom == Nombres(resultado[1].properties)
            Pos(n) == CHOOSE i \in 1..Len(nom) : nom[i] = n
        IN  /\ Rango(req) \subseteq Rango(nom)
            /\ \A i, j \in 1..Len(req) : i # j => req[i] # req[j]
            /\ \A i, j \in 1..Len(req) : i < j => Pos(req[i]) < Pos(req[j])

\* the last family of F with a match named n
UltimaFamilia(F, n) ==
    CHOOSE k \in 1..Len(F) :
        /\ \E i \in 1..Len(F[k]) : F[k][i].nombre = n
        /\ \A l \in (k + 1)..Len(F) : \A i \in 1..Len(F[l]) : F[l][i].nombre # n

\* C7: the four families all run, in the order campo, colon, dash, es-un;
\* every name any of them matches is a property, and its type is that of the
\* last match of the last family that matches the name, wherever in the text
\* the matches are.
C7_UltimaDeteccionGana ==
    resultado # None =>
        LET F == Familias IN
        HayPatronEn(F) =>
            /\ \A k \in 1..Len(F) : \A i \in 1..Len(F[k]) :
                  F[k][i].nombre \in Rango(Nombres(resultado[1].properties))
            /\ \A i \in 1..Len(resultado[1].properties) :
                  LET p == resultado[1].properties[i]
                      d == UltimoDe(F[UltimaFamilia(F, p.nombre)], p.nombre)
                  IN  /\ p.type = TipoJSON(d.tipo)
                      /\ p.format = Formato(d.tipo)

\* a later family's match lies earlier in the text than an earlier family's
\* match of the same name, and decides the type
C7_Testigo ==
    /\ resultado # None
    /\ LET F == Familias IN
       \E j \in 1..Len(F) : \E k \in (j + 1)..Len(F) :
       \E a \in 1..Len(F[j]) : \E b \in 1..Len(F[k]) :
          /\ F[j][a].nombre = F[k][b].nombre
          /\ F[k][b].ini < F[j][a].ini
          /\ TipoJSON(F[j][a].tipo) # TipoJSON(F[k][b].tipo)
          /\ \E i \in 1..Len(resultado[1].properties) :
                /\ resultado[1].properties[i].nombre = F[k][b].nombre
                /\ resultado[1].properties[i].type = TipoJSON(F[k][b].tipo)

\* the dictionary's keywords present in txt, in dictionary order
ClavesPresentes(txt) ==
    LET EstaPresente(par) == ClavePresente(par[1], txt)
    IN  SelectSeq(palabras_clave, EstaPresente)

\* C8: with a pattern match, every property comes from a pattern match; with
\* none, the properties are exactly the dictionary keywords that occur as a
\* whitespace-delimited token of the lower-cased text, once each, in
\* dictionary order, with the dictionary's type.
C8_PalabrasClave ==
    resultado # None =>
        LET F == Familias IN
        /\ HayPatronEn(F) =>
              \A i \in 1..Len(resultado[1].properties) :
                  \E k \in 1..Len(F) : \E m \in 1..Len(F[k]) :
                      F[k][m].nombre = resultado[1].properties[i].nombre
        /\ ~HayPatronEn(F) =>
              LET presentes == ClavesPresentes(LowerTexto(texto))
                  props == IF HayCampos THEN resultado[1].properties ELSE <<>>
              IN  /\ Len(props) = Len(presentes)
                  /\ \A i \in 1..Len(props) :
                        /\ props[i].nombre = presentes[i][1]
                        /\ props[i].type = TipoJSON(presentes[i][2])
                        /\ props[i].format = Formato(presentes[i][2])

\* two keywords written in the reverse of dictionary order
C8_Testigo ==
    /\ HayCampos
    /\ ~HayPatronEn(Familias)
    /\ \E a \in 1..Len(texto) : \E b \in (a + 1)..Len(texto) :
          /\ LowerTexto(texto)[a] = "edad"
          /\ LowerTexto(texto)[b] = "email"
    /\ Nombres(resultado[1].properties) = <<"email", "edad">>

(***************************************************************************)
(* Properties of the page's session state, stated for SpecUI              *)
(***************************************************************************)
\* edits that are not JSON: an empty text, an unclosed object, a trailing
\* comma, a closing brace too many, a bare word
TextosMalFormados ==
    { <<>>,
      <<P("{"), S(<<"type">>), P(":"), S(<<"object">>)>>,
      <<P("{"), S(<<"a">>), P(":"), P("["), L("1"), P(","), P("]"), P("}")>>,
      <<P("{"), P("}"), P("}")>>,
      <<X("hola")>> }

\* edits that are JSON
TextosBienFormados == { <<P("{"), P("}")>>, <<L("1")>> }

\* C6: an edit that does not parse is rejected: json_editado, schema_actual
\* and historial stay as they were; an edit that parses replaces
\* json_editado; json_editado changes in an edit only to the edited text,
\* and only when validar_json accepts it.
C6_EdicionInvalidaRechazada ==
    [][\A j \in Ediciones(json_editado) :
          Editar(j) =>
              /\ UNCHANGED <<schema_actual, historial>>
              /\ j \in TextosMalFormados => json_editado' = json_editado
              /\ j \in TextosBienFormados => json_editado' = j
              /\ json_editado' # json_editado =>
                    (json_editado' = j /\ validar_json(j))]_vars

\* the editor holds a text that does not parse while json_editado still holds
\* the valid text it was given
C6_Testigo ==
    /\ schema_actual # None
    /\ json_editor # None
    /\ json_editor[1].texto \in TextosMalFormados
    /\ json_editor[1].valor = json_editado
    /\ json_editado \notin TextosMalFormados
    /\ json_editado # <<>>

\* C9: whenever schema_actual is set, json_editado (what the download button
\* serves) is valid JSON.
C9_DescargaValida ==
    schema_actual # None => validar_json(json_editado)

\* an older entry of the history loaded after an edit was rejected
C9_Testigo ==
    /\ schema_actual # None
    /\ Len(historial) >= 2
    /\ schema_actual[1] # historial[Len(historial)].schema
    /\ json_editor # None
    /\ ~validar_json(json_editor[1].texto)
    /\ json_editado = formatear_json(schema_actual[1])

SoloEspacios(t) == Rango(t) \subseteq {" ", "\n"}

CreceEnUno(h, g) == Len(g) = Len(h) + 1 /\ SubSeq(g, 1, Len(h)) = h

\* C10: historial changes only by a generate with non-blank text, which
\* appends one entry, and by "Limpiar Historial", which empties it; a blank
\* generate, Limpiar, an edit and a load leave it unchanged, and a blank
\* generate also leaves schema_actual and json_editado unchanged.
C10_CambiosDelHistorial ==
    [][/\ \A t \in TextosEntrada :
             Generar(t) =>
                 IF SoloEspacios(t)
                 THEN UNCHANGED <<historial, schema_actual, json_editado>>
                 ELSE CreceEnUno(historial, historial')
       /\ (Limpiar \/ (\E j \in Ediciones(json_editado) : Editar(j))
                   \/ (\E i \in 1..VentanaHistorial : Cargar(i)))
             => historial' = historial
       /\ LimpiarHistorial => historial' = <<>>
       /\ historial' # historial =>
             (historial' = <<>> \/ CreceEnUno(historial, historial'))]_vars

\* a whitespace-only text was submitted with a schema on the page and a
\* history that it left alone
C10_Testigo ==
    /\ texto # <<>>
    /\ SoloEspacios(texto)
    /\ schema_actual # None
    /\ Len(historial) >= 1

====
